---- MODULE Spec2Model ----
(***************************************************************************)
(* Anthropic Messages translators of the AI gateway's external processor:  *)
(* the AWS Bedrock translator (three revisions), the GCP Vertex AI         *)
(* translator and the shared anthropicResponseHandler.                     *)
(*                                                                         *)
(* Strings are sequences of one-character strings, so that url.PathEscape  *)
(* and the path formats are computed character by character.  A JSON       *)
(* document (map[string]any) is a function from its keys to tagged values; *)
(* marshalled bytes are the sequence of its members in output order.       *)
(***************************************************************************)
EXTENDS Integers, Sequences, FiniteSets, TLC

VARIABLES variant, apiVersion, modelNameOverride, requestModel, phase, req, wire, streamInput, last,
          resolvedModel, calls, pair, actor, stream

vars == <<variant, apiVersion, modelNameOverride, requestModel, phase, req, wire, streamInput, last,
          resolvedModel, calls, pair, actor, stream>>

----------------------------------------------------------------------------
(* Bounds of the model.                                                    *)

MaxModelLen == 1
MaxLines == 2
MaxCalls == 2
MaxChunkLines == 3
MaxChunks == 4

----------------------------------------------------------------------------
(* Strings and values.                                                     *)

ModelChars == {":", "/"}

RECURSIVE StrUpTo(_)
StrUpTo(n) ==
    IF n = 0 THEN {<<>>}
    ELSE LET shorter == StrUpTo(n - 1)
         IN  shorter \cup {Append(s, c) : s \in {t \in shorter : Len(t) = n - 1}, c \in ModelChars}

SimpleModel == <<"a", ":", "0">>
ProfileARN == <<"a", ":", "p", "/", "a">>

Models == StrUpTo(MaxModelLen) \cup {SimpleModel, ProfileARN}

Overrides == {<<>>, <<"o", "/", ":", " ">>}

BedrockVersion == <<"b", "1">>
VertexVersion == <<"v", "1">>
ClientVersion == <<"c", "0">>

AWSLegacy == "aws-legacy"
AWS == "aws"
AWSSjson == "aws-sjson"
GCP == "gcp"

Variants == {AWSLegacy, AWS, AWSSjson, GCP}

HasApiVersion(v) == v # AWSLegacy

IsAWS(v) == v \in {AWSLegacy, AWS, AWSSjson}

StrVal(s) == [t |-> "string", b |-> FALSE, s |-> s, n |-> 0]
BoolVal(b) == [t |-> "bool", b |-> b, s |-> <<>>, n |-> 0]
NumVal(n) == [t |-> "number", b |-> FALSE, s |-> <<>>, n |-> n]

modelKey == "model"
streamKey == "stream"
anthropicVersionKey == "anthropic_version"
maxTokensKey == "max_tokens"

Keys == {modelKey, streamKey, anthropicVersionKey, maxTokensKey}

KeyValues(k) ==
    CASE k = modelKey -> {StrVal(m) : m \in Models}
      [] k = streamKey -> {BoolVal(TRUE), BoolVal(FALSE), StrVal(<<"t", "r", "u", "e">>)}
      [] k = anthropicVersionKey -> {StrVal(ClientVersion)}
      [] k = maxTokensKey -> {NumVal(7)}

EmptyDoc == [k \in {} |-> StrVal(<<>>)]

Requests ==
    UNION {{d \in [ks -> UNION {KeyValues(k) : k \in ks}] : \A k \in ks : d[k] \in KeyValues(k)} : ks \in SUBSET Keys}

----------------------------------------------------------------------------
(* JSON documents and bytes.                                               *)

GetModel(body) ==
    IF modelKey \in DOMAIN body /\ body[modelKey].t = "string" THEN body[modelKey].s ELSE <<>>

GetStream(body) ==
    IF streamKey \in DOMAIN body /\ body[streamKey].t = "bool" THEN body[streamKey].b ELSE FALSE

(* A map value is a reference: fresh tells whether writes through it stay   *)
(* out of the map it was made from.                                        *)
MapCopyAliases(doc) == [fresh |-> FALSE, doc |-> doc]

MapCopy(doc) == [fresh |-> TRUE, doc |-> [k \in DOMAIN doc |-> doc[k]]]

(* The caller's map once the callee has written through the reference.     *)
CallerMap(original, ref, written) == IF ref.fresh THEN original ELSE written

MapDeleteKeepsKey(doc, key) == doc

MapDelete(doc, key) == [k \in (DOMAIN doc) \ {key} |-> doc[k]]

MapSetIfAbsent(doc, key, val) ==
    [k \in (DOMAIN doc) \cup {key} |-> IF k \in DOMAIN doc THEN doc[k] ELSE val]

MapSet(doc, key, val) == [k \in (DOMAIN doc) \cup {key} |-> IF k = key THEN val ELSE doc[k]]

SortedKeys == <<anthropicVersionKey, maxTokensKey, modelKey, streamKey>>

Member(k, v) == [key |-> k, val |-> v]

RECURSIVE MarshalFromOmitEmpty(_, _)
MarshalFromOmitEmpty(doc, i) ==
    IF i > Len(SortedKeys) THEN <<>>
    ELSE IF SortedKeys[i] \in DOMAIN doc /\ doc[SortedKeys[i]] # BoolVal(FALSE)
         THEN <<Member(SortedKeys[i], doc[SortedKeys[i]])>> \o MarshalFromOmitEmpty(doc, i + 1)
         ELSE MarshalFromOmitEmpty(doc, i + 1)

RECURSIVE MarshalFrom(_, _)
MarshalFrom(doc, i) ==
    IF i > Len(SortedKeys) THEN <<>>
    ELSE IF SortedKeys[i] \in DOMAIN doc
         THEN <<Member(SortedKeys[i], doc[SortedKeys[i]])>> \o MarshalFrom(doc, i + 1)
         ELSE MarshalFrom(doc, i + 1)

jsonMarshal(doc) == MarshalFrom(doc, 1)

BytesKeys(bytes) == {bytes[i].key : i \in 1..Len(bytes)}

BytesGet(bytes, key) == (CHOOSE i \in 1..Len(bytes) : bytes[i].key = key)

BytesValue(bytes, key) == bytes[BytesGet(bytes, key)].val

sjsonSetBytes(bytes, key, val) ==
    IF key \in BytesKeys(bytes)
    THEN [i \in 1..Len(bytes) |-> IF bytes[i].key = key THEN Member(key, val) ELSE bytes[i]]
    ELSE Append(bytes, Member(key, val))

sjsonDeleteBytes(bytes, key) == SelectSeq(bytes, LAMBDA m : m.key # key)

KeyLen(k) ==
    CASE k = modelKey -> 5
      [] k = streamKey -> 6
      [] k = anthropicVersionKey -> 17
      [] k = maxTokensKey -> 10

ValLen(v) ==
    CASE v.t = "string" -> Len(v.s) + 2
      [] v.t = "bool" -> IF v.b THEN 4 ELSE 5
      [] v.t = "number" -> 1

RECURSIVE MembersLen(_)
MembersLen(bytes) ==
    IF bytes = <<>> THEN 0
    ELSE KeyLen(Head(bytes).key) + 3 + ValLen(Head(bytes).val)
         + (IF Len(bytes) > 1 THEN 1 ELSE 0) + MembersLen(Tail(bytes))

RequestLen(bytes) == 2 + MembersLen(bytes)

Digit(d) ==
    CASE d = 0 -> "0" [] d = 1 -> "1" [] d = 2 -> "2" [] d = 3 -> "3" [] d = 4 -> "4"
      [] d = 5 -> "5" [] d = 6 -> "6" [] d = 7 -> "7" [] d = 8 -> "8" [] d = 9 -> "9"

RECURSIVE Itoa(_)
Itoa(n) == IF n < 10 THEN <<Digit(n)>> ELSE Append(Itoa(n \div 10), Digit(n % 10))

----------------------------------------------------------------------------
(* Paths.                                                                  *)

shouldEscapeQuery(c) == c \in {":", " ", ";", ",", "?", "%"}

shouldEscape(c) == c \in {"/", " ", ";", ",", "?", "%"}

EscapeTable ==
    [c \in {"/", " ", ";", ",", "?", "%", ":"} |->
        CASE c = "/" -> <<"%", "2", "F">>
          [] c = " " -> <<"%", "2", "0">>
          [] c = ";" -> <<"%", "3", "B">>
          [] c = "," -> <<"%", "2", "C">>
          [] c = "?" -> <<"%", "3", "F">>
          [] c = "%" -> <<"%", "2", "5">>
          [] c = ":" -> <<"%", "3", "A">>]

RECURSIVE PathEscape(_)
PathEscape(s) ==
    IF s = <<>> THEN <<>>
    ELSE (IF shouldEscape(Head(s)) /\ Head(s) \in DOMAIN EscapeTable THEN EscapeTable[Head(s)] ELSE <<Head(s)>>)
         \o PathEscape(Tail(s))

ModelPrefix == <<"/", "m", "o", "d", "e", "l", "/">>
InvokeSuffix == <<"/", "i", "n", "v", "o", "k", "e">>
InvokeStreamSuffix == InvokeSuffix \o <<"-", "s", "t", "r", "e", "a", "m">>

AWSPath(streaming, encodedModelID) ==
    ModelPrefix \o encodedModelID \o (IF streaming THEN InvokeStreamSuffix ELSE InvokeSuffix)

gcpModelPublisherAnthropic == <<"a", "n", "t", "h", "r", "o", "p", "i", "c">>
rawPredict == <<"r", "a", "w", "P", "r", "e", "d", "i", "c", "t">>
streamRawPredict == <<"s", "t", "r", "e", "a", "m", "R", "a", "w", "P", "r", "e", "d", "i", "c", "t">>

buildGCPModelPathSuffix(publisher, model, specifier) ==
    <<"p", "u", "b", "l", "i", "s", "h", "e", "r", "s", "/">> \o publisher
    \o <<"/", "m", "o", "d", "e", "l", "s", "/">> \o model \o <<":">> \o specifier

----------------------------------------------------------------------------
(* Mutations.                                                              *)

pathHeader == ":path"
contentLengthHeader == "content-length"

Header(k, v) == [Key |-> k, RawValue |-> v]

NilHeaderMutation == [nil |-> TRUE, SetHeaders |-> <<>>]
NilBodyMutation == [nil |-> TRUE, Body |-> <<>>]

BodyMutation(bytes) == [nil |-> FALSE, Body |-> bytes]

buildRequestMutations(path, bytes) ==
    [hm |-> [nil |-> FALSE,
             SetHeaders |-> <<Header(pathHeader, path), Header(contentLengthHeader, Itoa(RequestLen(bytes)))>>],
     bm |-> BodyMutation(bytes)]

HeaderKeys(hm) == {hm.SetHeaders[i].Key : i \in 1..Len(hm.SetHeaders)}

HeaderValue(hm, k) ==
    hm.SetHeaders[CHOOSE i \in 1..Len(hm.SetHeaders) :
                     hm.SetHeaders[i].Key = k /\ \A j \in (i + 1)..Len(hm.SetHeaders) : hm.SetHeaders[j].Key # k].RawValue

----------------------------------------------------------------------------
(* Token usage and response bodies.                                        *)

(* uint32 values are kept as two 16-bit halves; the arithmetic wraps at 2^32. *)
HalfMod == 65536

U32(hi, lo) == [hi |-> hi, lo |-> lo]

Tok(n) == U32(0, n)

Zero32 == Tok(0)
MaxUint32 == U32(HalfMod - 1, HalfMod - 1)
Absent == U32(-1, -1)

Add32(a, b) ==
    LET lo == a.lo + b.lo
    IN  U32((a.hi + b.hi + (lo \div HalfMod)) % HalfMod, lo % HalfMod)

Uint32(n) == U32(n.hi % HalfMod, n.lo % HalfMod)

LLMTokenUsage(i, o, t, c) ==
    [InputTokens |-> i, OutputTokens |-> o, TotalTokens |-> t, CachedInputTokens |-> c]

ZeroUsage == LLMTokenUsage(Zero32, Zero32, Zero32, Zero32)

messageStart == "message_start"
messageDelta == "message_delta"
messageStop == "message_stop"

Line(data, json, type, usage, input, output, cache) ==
    [data |-> data, json |-> json, type |-> type, usage |-> usage,
     input |-> input, output |-> output, cache |-> cache]

NonDataLine == Line(FALSE, FALSE, "", FALSE, Absent, Absent, Absent)
BadJSONLine == Line(TRUE, FALSE, "", FALSE, Absent, Absent, Absent)

Event(type) == Line(TRUE, TRUE, type, FALSE, Absent, Absent, Absent)

StartEvent(input, output, cache) == Line(TRUE, TRUE, messageStart, TRUE, input, output, cache)

DeltaEvent(output) == Line(TRUE, TRUE, messageDelta, TRUE, Absent, output, Absent)

SSELines ==
    {NonDataLine, BadJSONLine, Event(messageStop), Event(messageStart), Event(messageDelta),
     StartEvent(Tok(50), Zero32, Absent), StartEvent(MaxUint32, Tok(1), Absent),
     StartEvent(Tok(50), Absent, Tok(3)), DeltaEvent(Tok(84))}

Usage(i, o, cr, cc) ==
    [input_tokens |-> i, output_tokens |-> o, cache_read_input_tokens |-> cr, cache_creation_input_tokens |-> cc]

NoMessage == Usage(Zero32, Zero32, Zero32, Zero32)

BackendModel == <<"c", "3">>

SSEBody(lines) == [kind |-> "sse", lines |-> lines, msg |-> NoMessage, model |-> <<>>]
JSONBody(msg) == [kind |-> "json", lines |-> <<>>, msg |-> msg, model |-> BackendModel]
RawBody == [kind |-> "raw", lines |-> <<>>, msg |-> NoMessage, model |-> <<>>]
NoBody == [kind |-> "none", lines |-> <<>>, msg |-> NoMessage, model |-> <<>>]

Messages ==
    {Usage(i, Tok(28), cr, cc) : i \in {Tok(45), MaxUint32}, cr \in {Zero32, Tok(30)}, cc \in {Zero32, Tok(10)}}

WholeBodies == {JSONBody(m) : m \in Messages} \cup {RawBody, SSEBody(<<>>)}

bytesLines(body) ==
    CASE body.kind = "sse" -> body.lines
      [] body.kind = "none" -> <<>>
      [] OTHER -> <<NonDataLine>>

SSEStepStaleTotal(tokenUsage, line) ==
    IF ~line.data \/ ~line.json THEN tokenUsage
    ELSE CASE line.type = messageStart /\ line.usage ->
                LET i == IF line.input # Absent THEN Uint32(line.input) ELSE tokenUsage.InputTokens
                    o == IF line.output # Absent /\ line.output # Zero32
                         THEN Uint32(line.output) ELSE tokenUsage.OutputTokens
                IN  LLMTokenUsage(i, o, Add32(i, o), tokenUsage.CachedInputTokens)
           [] line.type = messageDelta /\ line.usage /\ line.output # Absent ->
                LLMTokenUsage(tokenUsage.InputTokens, Add32(tokenUsage.OutputTokens, Uint32(line.output)),
                              tokenUsage.TotalTokens, tokenUsage.CachedInputTokens)
           [] OTHER -> tokenUsage

SSEStepStartKeepsTotal(tokenUsage, line) ==
    IF ~line.data \/ ~line.json THEN tokenUsage
    ELSE CASE line.type = messageStart /\ line.usage ->
                LET i == IF line.input # Absent THEN Uint32(line.input) ELSE tokenUsage.InputTokens
                    o == IF line.output # Absent /\ line.output # Zero32
                         THEN Uint32(line.output) ELSE tokenUsage.OutputTokens
                IN  LLMTokenUsage(i, o, tokenUsage.TotalTokens, tokenUsage.CachedInputTokens)
           [] line.type = messageDelta /\ line.usage /\ line.output # Absent ->
                LET o == Add32(tokenUsage.OutputTokens, Uint32(line.output))
                IN  LLMTokenUsage(tokenUsage.InputTokens, o, Add32(tokenUsage.InputTokens, o),
                                  tokenUsage.CachedInputTokens)
           [] OTHER -> tokenUsage

(* A second message_start keeps the input tokens of the first.             *)
SSEStepSetOnce(tokenUsage, line) ==
    IF ~line.data \/ ~line.json THEN tokenUsage
    ELSE CASE line.type = messageStart /\ line.usage ->
                LET i == IF line.input # Absent /\ tokenUsage.InputTokens = Zero32
                         THEN Uint32(line.input) ELSE tokenUsage.InputTokens
                    o == IF line.output # Absent /\ line.output # Zero32
                         THEN Uint32(line.output) ELSE tokenUsage.OutputTokens
                IN  LLMTokenUsage(i, o, Add32(i, o), tokenUsage.CachedInputTokens)
           [] line.type = messageDelta /\ line.usage /\ line.output # Absent ->
                LET o == Add32(tokenUsage.OutputTokens, Uint32(line.output))
                IN  LLMTokenUsage(tokenUsage.InputTokens, o, Add32(tokenUsage.InputTokens, o),
                                  tokenUsage.CachedInputTokens)
           [] OTHER -> tokenUsage

(* A message_start also reports its cache_read_input_tokens.               *)
SSEStepReadsCache(tokenUsage, line) ==
    IF ~line.data \/ ~line.json THEN tokenUsage
    ELSE CASE line.type = messageStart /\ line.usage ->
                LET i == IF line.input # Absent THEN Uint32(line.input) ELSE tokenUsage.InputTokens
                    o == IF line.output # Absent /\ line.output # Zero32
                         THEN Uint32(line.output) ELSE tokenUsage.OutputTokens
                    c == IF line.cache # Absent THEN Uint32(line.cache) ELSE tokenUsage.CachedInputTokens
                IN  LLMTokenUsage(i, o, Add32(i, o), c)
           [] line.type = messageDelta /\ line.usage /\ line.output # Absent ->
                LET o == Add32(tokenUsage.OutputTokens, Uint32(line.output))
                IN  LLMTokenUsage(tokenUsage.InputTokens, o, Add32(tokenUsage.InputTokens, o),
                                  tokenUsage.CachedInputTokens)
           [] OTHER -> tokenUsage

(* A message_stop closes the message and clears the counters.              *)
SSEStepStopResets(tokenUsage, line) ==
    IF ~line.data \/ ~line.json THEN tokenUsage
    ELSE CASE line.type = messageStart /\ line.usage ->
                LET i == IF line.input # Absent THEN Uint32(line.input) ELSE tokenUsage.InputTokens
                    o == IF line.output # Absent /\ line.output # Zero32
                         THEN Uint32(line.output) ELSE tokenUsage.OutputTokens
                IN  LLMTokenUsage(i, o, Add32(i, o), tokenUsage.CachedInputTokens)
           [] line.type = messageDelta /\ line.usage /\ line.output # Absent ->
                LET o == Add32(tokenUsage.OutputTokens, Uint32(line.output))
                IN  LLMTokenUsage(tokenUsage.InputTokens, o, Add32(tokenUsage.InputTokens, o),
                                  tokenUsage.CachedInputTokens)
           [] line.type = messageStop -> ZeroUsage
           [] OTHER -> tokenUsage

(* A message_delta sets the output tokens instead of adding to them.       *)
SSEStepDeltaReplaces(tokenUsage, line) ==
    IF ~line.data \/ ~line.json THEN tokenUsage
    ELSE CASE line.type = messageStart /\ line.usage ->
                LET i == IF line.input # Absent THEN Uint32(line.input) ELSE tokenUsage.InputTokens
                    o == IF line.output # Absent /\ line.output # Zero32
                         THEN Uint32(line.output) ELSE tokenUsage.OutputTokens
                IN  LLMTokenUsage(i, o, Add32(i, o), tokenUsage.CachedInputTokens)
           [] line.type = messageDelta /\ line.usage /\ line.output # Absent ->
                LET o == Uint32(line.output)
                IN  LLMTokenUsage(tokenUsage.InputTokens, o, Add32(tokenUsage.InputTokens, o),
                                  tokenUsage.CachedInputTokens)
           [] OTHER -> tokenUsage

(* A message_start adds its output tokens to those counted so far.         *)
SSEStepStartAdds(tokenUsage, line) ==
    IF ~line.data \/ ~line.json THEN tokenUsage
    ELSE CASE line.type = messageStart /\ line.usage ->
                LET i == IF line.input # Absent THEN Uint32(line.input) ELSE tokenUsage.InputTokens
                    o == IF line.output # Absent /\ line.output # Zero32
                         THEN Add32(tokenUsage.OutputTokens, Uint32(line.output)) ELSE tokenUsage.OutputTokens
                IN  LLMTokenUsage(i, o, Add32(i, o), tokenUsage.CachedInputTokens)
           [] line.type = messageDelta /\ line.usage /\ line.output # Absent ->
                LET o == Add32(tokenUsage.OutputTokens, Uint32(line.output))
                IN  LLMTokenUsage(tokenUsage.InputTokens, o, Add32(tokenUsage.InputTokens, o),
                                  tokenUsage.CachedInputTokens)
           [] OTHER -> tokenUsage

SSEStep(tokenUsage, line) ==
    IF ~line.data \/ ~line.json THEN tokenUsage
    ELSE CASE line.type = messageStart /\ line.usage ->
                LET i == IF line.input # Absent THEN Uint32(line.input) ELSE tokenUsage.InputTokens
                    o == IF line.output # Absent /\ line.output # Zero32
                         THEN Uint32(line.output) ELSE tokenUsage.OutputTokens
                IN  LLMTokenUsage(i, o, Add32(i, o), tokenUsage.CachedInputTokens)
           [] line.type = messageDelta /\ line.usage /\ line.output # Absent ->
                LET o == Add32(tokenUsage.OutputTokens, Uint32(line.output))
                IN  LLMTokenUsage(tokenUsage.InputTokens, o, Add32(tokenUsage.InputTokens, o),
                                  tokenUsage.CachedInputTokens)
           [] OTHER -> tokenUsage

(* The first line that does not parse ends the scan of the chunk.          *)
RECURSIVE SSEFoldStopsAtBadLine(_, _)
SSEFoldStopsAtBadLine(tokenUsage, lines) ==
    IF lines = <<>> \/ ~Head(lines).data \/ ~Head(lines).json THEN tokenUsage
    ELSE SSEFoldStopsAtBadLine(SSEStep(tokenUsage, Head(lines)), Tail(lines))

RECURSIVE SSEFold(_, _)
SSEFold(tokenUsage, lines) ==
    IF lines = <<>> THEN tokenUsage ELSE SSEFold(SSEStep(tokenUsage, Head(lines)), Tail(lines))

(* The counters of the previous chunk of the stream are carried over.      *)
extractTokenUsageFromSSECarriesOver(body) ==
    SSEFold(IF stream = <<>> THEN ZeroUsage ELSE stream[Len(stream)].usage, bytesLines(body))

extractTokenUsageFromSSE(body) == SSEFold(ZeroUsage, bytesLines(body))

ParsesAnything(body) == body.kind \in {"json", "raw"}

ParsesAsMessage(body) == body.kind = "json"

extractTokenUsageCountingCache(body) ==
    LLMTokenUsage(Uint32(body.msg.input_tokens), Uint32(body.msg.output_tokens),
                  Add32(Add32(body.msg.input_tokens, body.msg.output_tokens), body.msg.cache_read_input_tokens),
                  Uint32(body.msg.cache_read_input_tokens))

extractTokenUsageFromResponse(body) ==
    LLMTokenUsage(Uint32(body.msg.input_tokens), Uint32(body.msg.output_tokens),
                  Add32(body.msg.input_tokens, body.msg.output_tokens),
                  Uint32(body.msg.cache_read_input_tokens))

RECURSIVE LinesLen(_)
LinesLen(lines) ==
    IF lines = <<>> THEN 0
    ELSE (IF Head(lines).data THEN 6 ELSE 0) + (IF Head(lines).json THEN 2 ELSE 3) + 1 + LinesLen(Tail(lines))

BodyLen(body) ==
    CASE body.kind = "sse" -> LinesLen(body.lines)
      [] body.kind = "json" -> 30
      [] OTHER -> 14

setContentLength(hm, body) ==
    [nil |-> FALSE, SetHeaders |-> Append(hm.SetHeaders, Header(contentLengthHeader, Itoa(BodyLen(body))))]

----------------------------------------------------------------------------
(* Results of the translator methods.                                      *)

NoError == "nil"
ConfigError == "anthropic_version is required"
ReadError == "failed to read response body"

ApiVersions(v) ==
    CASE v = AWSLegacy -> {<<>>}
      [] v = GCP -> {<<>>, VertexVersion}
      [] OTHER -> {<<>>, BedrockVersion}

RequestResult(model, body, hm, bm, err) ==
    [requestModel |-> model, body |-> body, hm |-> hm, bm |-> bm, err |-> err]

ResponseResult(hm, bm, usage, model, err) ==
    [hm |-> hm, bm |-> bm, usage |-> usage, responseModel |-> model, err |-> err]

StreamRequestedTruthy(anthropicReq) ==
    streamKey \in DOMAIN anthropicReq /\ (anthropicReq[streamKey].t # "bool" \/ anthropicReq[streamKey].b)

StreamRequested(anthropicReq) ==
    streamKey \in DOMAIN anthropicReq /\ anthropicReq[streamKey].t = "bool" /\ anthropicReq[streamKey].b

applyModelNameOverrideAsDefault(originalModel, override) ==
    IF originalModel = <<>> THEN override ELSE originalModel

applyModelNameOverride(originalModel, override) ==
    IF override # <<>> THEN override ELSE originalModel

(* anthropic_awsanthropic.go: the revision without an API version.         *)
AWSLegacyRequestBody(override, body) ==
    LET modelName == GetModel(body)
        copied == MapCopy(body)
        resolved == IF override # <<>> THEN override ELSE modelName
        anthropicReq == MapDelete(copied.doc, modelKey)
        mutatedBody == jsonMarshal(anthropicReq)
        pathSuffix == AWSPath(StreamRequested(anthropicReq), PathEscape(resolved))
        m == buildRequestMutations(pathSuffix, mutatedBody)
    IN  RequestResult(resolved, CallerMap(body, copied, anthropicReq), m.hm, m.bm, NoError)

AWSRequestBodyInPlace(version, override, body) ==
    LET modelName == GetModel(body)
        resolved == applyModelNameOverride(modelName, override)
        deleted == MapDelete(body, modelKey)
        anthropicReq == MapSet(deleted, anthropicVersionKey, StrVal(version))
        mutatedBody == jsonMarshal(anthropicReq)
        pathSuffix == AWSPath(StreamRequested(anthropicReq), PathEscape(resolved))
        m == buildRequestMutations(pathSuffix, mutatedBody)
    IN  IF version = <<>>
        THEN RequestResult(resolved, deleted, NilHeaderMutation, NilBodyMutation, ConfigError)
        ELSE RequestResult(resolved, anthropicReq, m.hm, m.bm, NoError)

(* A call that fails on the API version leaves no model behind.            *)
AWSRequestBodyClearsModelOnError(version, override, body) ==
    LET modelName == GetModel(body)
        copied == MapCopy(body)
        resolved == applyModelNameOverride(modelName, override)
        deleted == MapDelete(copied.doc, modelKey)
        anthropicReq == MapSet(deleted, anthropicVersionKey, StrVal(version))
        mutatedBody == jsonMarshal(anthropicReq)
        pathSuffix == AWSPath(StreamRequested(anthropicReq), PathEscape(resolved))
        m == buildRequestMutations(pathSuffix, mutatedBody)
    IN  IF version = <<>>
        THEN RequestResult(<<>>, CallerMap(body, copied, deleted), NilHeaderMutation, NilBodyMutation,
                           ConfigError)
        ELSE RequestResult(resolved, CallerMap(body, copied, anthropicReq), m.hm, m.bm, NoError)

(* The configuration error comes back together with the mutations built    *)
(* from the request so far.                                                *)
AWSRequestBodyErrorWithMutations(version, override, body) ==
    LET modelName == GetModel(body)
        copied == MapCopy(body)
        resolved == applyModelNameOverride(modelName, override)
        deleted == MapDelete(copied.doc, modelKey)
        anthropicReq == MapSet(deleted, anthropicVersionKey, StrVal(version))
        mutatedBody == jsonMarshal(anthropicReq)
        pathSuffix == AWSPath(StreamRequested(anthropicReq), PathEscape(resolved))
        m == buildRequestMutations(pathSuffix, mutatedBody)
    IN  IF version = <<>>
        THEN RequestResult(resolved, CallerMap(body, copied, deleted), m.hm, m.bm, ConfigError)
        ELSE RequestResult(resolved, CallerMap(body, copied, anthropicReq), m.hm, m.bm, NoError)

(* The revision with the API version and the shared response handler.      *)
AWSRequestBody(version, override, body) ==
    LET modelName == GetModel(body)
        copied == MapCopy(body)
        resolved == applyModelNameOverride(modelName, override)
        deleted == MapDelete(copied.doc, modelKey)
        anthropicReq == MapSet(deleted, anthropicVersionKey, StrVal(version))
        mutatedBody == jsonMarshal(anthropicReq)
        pathSuffix == AWSPath(StreamRequested(anthropicReq), PathEscape(resolved))
        m == buildRequestMutations(pathSuffix, mutatedBody)
    IN  IF version = <<>>
        THEN RequestResult(resolved, CallerMap(body, copied, deleted), NilHeaderMutation, NilBodyMutation,
                           ConfigError)
        ELSE RequestResult(resolved, CallerMap(body, copied, anthropicReq), m.hm, m.bm, NoError)

GCPRequestBody(version, override, body) ==
    LET modelName == GetModel(body)
        copied == MapCopy(body)
        resolved == applyModelNameOverride(modelName, override)
        deleted == MapDelete(copied.doc, modelKey)
        anthropicReq == MapSet(deleted, anthropicVersionKey, StrVal(version))
        mutatedBody == jsonMarshal(anthropicReq)
        specifier == IF StreamRequested(anthropicReq) THEN streamRawPredict ELSE rawPredict
        pathSuffix == buildGCPModelPathSuffix(gcpModelPublisherAnthropic, resolved, specifier)
        m == buildRequestMutations(pathSuffix, mutatedBody)
    IN  IF version = <<>>
        THEN RequestResult(resolved, CallerMap(body, copied, deleted), NilHeaderMutation, NilBodyMutation,
                           ConfigError)
        ELSE RequestResult(resolved, CallerMap(body, copied, anthropicReq), m.hm, m.bm, NoError)

(* The embedded direct translator: resolves the model, keeps the body.     *)
AnthropicRequestBody(override, rawBody, body) ==
    LET resolved == IF override # <<>> THEN override ELSE GetModel(body)
        newBody == IF override # <<>> THEN sjsonSetBytes(rawBody, modelKey, StrVal(override)) ELSE rawBody
        hm == [nil |-> FALSE, SetHeaders |-> <<Header(contentLengthHeader, Itoa(RequestLen(newBody)))>>]
    IN  RequestResult(resolved, body, hm, BodyMutation(newBody), NoError)

(* content-length is left as the direct translator computed it.            *)
AWSSjsonRequestBodyStaleLength(version, override, rawBody, body) ==
    LET base == AnthropicRequestBody(override, rawBody, body)
        withVersion == sjsonSetBytes(base.bm.Body, anthropicVersionKey, StrVal(version))
        preparedBody == sjsonDeleteBytes(withVersion, modelKey)
        pathSuffix == AWSPath(GetStream(body), PathEscape(base.requestModel))
        hm == [nil |-> FALSE,
               SetHeaders |-> <<Header(contentLengthHeader, Itoa(RequestLen(base.bm.Body))),
                                Header(pathHeader, pathSuffix)>>]
    IN  RequestResult(base.requestModel, base.body, hm, BodyMutation(preparedBody), NoError)

(* The revision built on the direct translator and sjson.                  *)
AWSSjsonRequestBody(version, override, rawBody, body) ==
    LET base == AnthropicRequestBody(override, rawBody, body)
        withVersion == sjsonSetBytes(base.bm.Body, anthropicVersionKey, StrVal(version))
        preparedBody == sjsonDeleteBytes(withVersion, modelKey)
        pathSuffix == AWSPath(GetStream(body), PathEscape(base.requestModel))
        hm == [nil |-> FALSE,
               SetHeaders |-> <<Header(contentLengthHeader, Itoa(RequestLen(preparedBody))),
                                Header(pathHeader, pathSuffix)>>]
    IN  RequestResult(base.requestModel, base.body, hm, BodyMutation(preparedBody), NoError)

HandlerResponseBodySetsLength(body, endOfStream, readFails, model) ==
    IF readFails
    THEN ResponseResult(NilHeaderMutation, NilBodyMutation, ZeroUsage, <<>>, ReadError)
    ELSE IF ~endOfStream
    THEN ResponseResult(setContentLength([nil |-> FALSE, SetHeaders |-> <<>>], body), BodyMutation(body),
                        extractTokenUsageFromSSE(body), model, NoError)
    ELSE IF ~ParsesAsMessage(body)
    THEN ResponseResult(NilHeaderMutation, BodyMutation(body), ZeroUsage, model, NoError)
    ELSE ResponseResult(setContentLength([nil |-> FALSE, SetHeaders |-> <<>>], body), BodyMutation(body),
                        extractTokenUsageFromResponse(body), model, NoError)

(* Response header maps, by the names they hold.                           *)
HeaderMaps == {{}, {"content-type", "authorization"}}

ResponseHeadersEcho(headers) ==
    [hm |-> IF headers = {} THEN NilHeaderMutation ELSE [nil |-> FALSE, SetHeaders |-> <<>>], err |-> NoError]

ResponseHeadersResult(headers) == [hm |-> NilHeaderMutation, err |-> NoError]

HandlerResponseBodyNoLength(body, endOfStream, readFails, model) ==
    IF readFails
    THEN ResponseResult(NilHeaderMutation, NilBodyMutation, ZeroUsage, <<>>, ReadError)
    ELSE IF ~endOfStream
    THEN ResponseResult(NilHeaderMutation, BodyMutation(body), extractTokenUsageFromSSE(body), model, NoError)
    ELSE IF ~ParsesAsMessage(body)
    THEN ResponseResult(NilHeaderMutation, BodyMutation(body), ZeroUsage, model, NoError)
    ELSE ResponseResult(NilHeaderMutation, BodyMutation(body), extractTokenUsageFromResponse(body), model, NoError)

HandlerResponseBodyKeepsModel(body, endOfStream, readFails, model) ==
    IF readFails
    THEN ResponseResult(NilHeaderMutation, NilBodyMutation, ZeroUsage, model, ReadError)
    ELSE IF ~endOfStream
    THEN ResponseResult(NilHeaderMutation, BodyMutation(body), extractTokenUsageFromSSE(body), model, NoError)
    ELSE IF ~ParsesAsMessage(body)
    THEN ResponseResult(NilHeaderMutation, BodyMutation(body), ZeroUsage, model, NoError)
    ELSE ResponseResult(setContentLength([nil |-> FALSE, SetHeaders |-> <<>>], body), BodyMutation(body),
                        extractTokenUsageFromResponse(body), model, NoError)

HandlerResponseBodyBackendModel(body, endOfStream, readFails, model) ==
    IF readFails
    THEN ResponseResult(NilHeaderMutation, NilBodyMutation, ZeroUsage, <<>>, ReadError)
    ELSE IF ~endOfStream
    THEN ResponseResult(NilHeaderMutation, BodyMutation(body), extractTokenUsageFromSSE(body), model, NoError)
    ELSE IF ~ParsesAsMessage(body)
    THEN ResponseResult(NilHeaderMutation, BodyMutation(body), ZeroUsage, model, NoError)
    ELSE ResponseResult(setContentLength([nil |-> FALSE, SetHeaders |-> <<>>], body), BodyMutation(body),
                        extractTokenUsageFromResponse(body), body.model, NoError)

(* The kind of body is taken from its content, not from the flag.          *)
HandlerResponseBodySniffs(body, endOfStream, readFails, model) ==
    IF readFails
    THEN ResponseResult(NilHeaderMutation, NilBodyMutation, ZeroUsage, <<>>, ReadError)
    ELSE IF body.kind = "sse"
    THEN ResponseResult(NilHeaderMutation, BodyMutation(body), extractTokenUsageFromSSE(body), model, NoError)
    ELSE IF ~ParsesAsMessage(body)
    THEN ResponseResult(NilHeaderMutation, BodyMutation(body), ZeroUsage, model, NoError)
    ELSE ResponseResult(setContentLength([nil |-> FALSE, SetHeaders |-> <<>>], body), BodyMutation(body),
                        extractTokenUsageFromResponse(body), model, NoError)

HandlerResponseBody(body, endOfStream, readFails, model) ==
    IF readFails
    THEN ResponseResult(NilHeaderMutation, NilBodyMutation, ZeroUsage, <<>>, ReadError)
    ELSE IF ~endOfStream
    THEN ResponseResult(NilHeaderMutation, BodyMutation(body), extractTokenUsageFromSSE(body), model, NoError)
    ELSE IF ~ParsesAsMessage(body)
    THEN ResponseResult(NilHeaderMutation, BodyMutation(body), ZeroUsage, model, NoError)
    ELSE ResponseResult(setContentLength([nil |-> FALSE, SetHeaders |-> <<>>], body), BodyMutation(body),
                        extractTokenUsageFromResponse(body), model, NoError)

AWSLegacyResponseBody(body, endOfStream, readFails, model) ==
    IF readFails
    THEN ResponseResult(NilHeaderMutation, NilBodyMutation, ZeroUsage, <<>>, ReadError)
    ELSE IF ~endOfStream
    THEN ResponseResult(NilHeaderMutation, BodyMutation(body), SSEFold(ZeroUsage, bytesLines(body)), model, NoError)
    ELSE IF ~ParsesAsMessage(body)
    THEN ResponseResult(NilHeaderMutation, BodyMutation(body), ZeroUsage, model, NoError)
    ELSE ResponseResult(setContentLength([nil |-> FALSE, SetHeaders |-> <<>>], body), BodyMutation(body),
                        LLMTokenUsage(Uint32(body.msg.input_tokens), Uint32(body.msg.output_tokens),
                                      Add32(body.msg.input_tokens, body.msg.output_tokens),
                                      Uint32(body.msg.cache_read_input_tokens)),
                        model, NoError)

----------------------------------------------------------------------------
(* The exchange: one translator instance, the request the filter holds,    *)
(* the response chunk on the wire, and the result of the latest call.      *)

RECURSIVE FirstStartInput(_)
FirstStartInput(lines) ==
    IF lines = <<>> THEN Absent
    ELSE LET l == Head(lines)
         IN  IF l.data /\ l.json /\ l.type = messageStart /\ l.usage /\ l.input # Absent
             THEN l.input ELSE FirstStartInput(Tail(lines))

Call(op, eos, body, bytes, readFails, prev, hm, bm, usage, model, err) ==
    [op |-> op, endOfStream |-> eos, req |-> body, body |-> bytes, readFails |-> readFails,
     prevInput |-> prev, hm |-> hm, bm |-> bm, usage |-> usage, responseModel |-> model, err |-> err,
     headers |-> {}]

NoCall ==
    Call("none", FALSE, EmptyDoc, NoBody, FALSE, Absent, NilHeaderMutation, NilBodyMutation,
         ZeroUsage, <<>>, NoError)

(* The method of the revision v, by its receiver's fields.                  *)
TranslatorRequestBody(v, version, override, body) ==
    CASE v = AWSLegacy -> AWSLegacyRequestBody(override, body)
      [] v = AWS -> AWSRequestBody(version, override, body)
      [] v = GCP -> GCPRequestBody(version, override, body)
      [] v = AWSSjson -> AWSSjsonRequestBody(version, override, jsonMarshal(body), body)

TranslatorResponseBody(v, body, endOfStream, readFails, model) ==
    IF v = AWSLegacy
    THEN AWSLegacyResponseBody(body, endOfStream, readFails, model)
    ELSE HandlerResponseBody(body, endOfStream, readFails, model)

(* Two translator instances serving two exchanges of the same filter.      *)
Instances == {1, 2}

Translator(v, version, override) ==
    [variant |-> v, apiVersion |-> version, modelNameOverride |-> override, requestModel |-> <<>>,
     last |-> NoCall, alone |-> <<>>, requestErr |-> NoError]

NoPair == [i \in Instances |-> Translator(AWSLegacy, <<>>, <<>>)]

Init ==
    /\ pair = NoPair
    /\ actor = 0
    /\ stream = <<>>
    /\ variant \in Variants
    /\ apiVersion \in ApiVersions(variant)
    /\ modelNameOverride \in Overrides
    /\ requestModel = <<>>
    /\ phase = "request"
    /\ req \in Requests
    /\ wire = NoBody
    /\ streamInput = Absent
    /\ last = NoCall
    /\ resolvedModel = <<>>
    /\ calls = 0

RequestBodyResult(body) == TranslatorRequestBody(variant, apiVersion, modelNameOverride, body)

RequestBody ==
    /\ phase = "request"
    /\ calls < MaxCalls
    /\ calls' = calls + 1
    /\ \E endOfStream \in BOOLEAN :
        LET r == RequestBodyResult(req)
        IN  /\ requestModel' = r.requestModel
            /\ req' = r.body
            /\ last' = Call("RequestBody", endOfStream, req, NoBody, FALSE, streamInput,
                            r.hm, r.bm, ZeroUsage, <<>>, r.err)
    /\ resolvedModel' = IF modelNameOverride # <<>> THEN modelNameOverride ELSE GetModel(req)
    /\ UNCHANGED <<stream, pair, actor, variant, apiVersion, modelNameOverride, phase, wire, streamInput>>

ResponseHeaders ==
    /\ wire.kind = "none"
    /\ \E headers \in HeaderMaps :
        LET r == ResponseHeadersResult(headers)
        IN  last' = [Call("ResponseHeaders", FALSE, EmptyDoc, NoBody, FALSE, streamInput,
                          r.hm, NilBodyMutation, ZeroUsage, <<>>, r.err) EXCEPT !.headers = headers]
    /\ UNCHANGED <<stream, pair, actor, resolvedModel, calls, variant, apiVersion, modelNameOverride, requestModel, phase, req, wire, streamInput>>

(* The request has been forwarded and the backend starts to answer.  The   *)
(* sjson revision hands its responses to the direct translator, which is   *)
(* not part of these sources, so its exchange ends with the request.  A    *)
(* translator that was given no API version forwards nothing, so no        *)
(* response reaches it.                                                    *)
BackendResponds ==
    /\ phase = "request"
    /\ variant # AWSSjson
    /\ HasApiVersion(variant) => apiVersion # <<>>
    /\ phase' = "response"
    /\ req' = EmptyDoc
    /\ last' = NoCall
    /\ calls' = 0
    /\ UNCHANGED <<stream, pair, actor, resolvedModel, variant, apiVersion, modelNameOverride, requestModel, wire, streamInput>>

(* The filter calls the translator again with another parsed request.      *)
NextRequest ==
    /\ phase = "request"
    /\ last.op = "RequestBody"
    /\ req' \in Requests
    /\ last' = NoCall
    /\ calls' = 0
    /\ UNCHANGED <<stream, pair, actor, resolvedModel, variant, apiVersion, modelNameOverride, requestModel, phase, wire, streamInput>>

BackendWriteLine ==
    /\ phase = "response"
    /\ wire.kind \in {"none", "sse"}
    /\ Len(wire.lines) < MaxLines
    /\ \E line \in SSELines : wire' = SSEBody(Append(wire.lines, line))
    /\ last' = NoCall
    /\ UNCHANGED <<stream, pair, actor, resolvedModel, calls, variant, apiVersion, modelNameOverride, requestModel, phase, req, streamInput>>

BackendWriteBody ==
    /\ phase = "response"
    /\ wire.kind = "none"
    /\ wire' \in WholeBodies
    /\ last' = NoCall
    /\ UNCHANGED <<stream, pair, actor, resolvedModel, calls, variant, apiVersion, modelNameOverride, requestModel, phase, req, streamInput>>

ResponseBodyResult(body, endOfStream, readFails) ==
    TranslatorResponseBody(variant, body, endOfStream, readFails, requestModel)

ResponseBody ==
    /\ phase = "response"
    /\ wire.kind # "none"
    /\ \E endOfStream \in BOOLEAN, readFails \in BOOLEAN :
        LET r == ResponseBodyResult(wire, endOfStream, readFails)
            seen == FirstStartInput(bytesLines(wire))
        IN  /\ last' = Call("ResponseBody", endOfStream, EmptyDoc, IF readFails THEN NoBody ELSE wire,
                            readFails, streamInput, r.hm, r.bm, r.usage, r.responseModel, r.err)
            /\ streamInput' = IF readFails THEN streamInput
                              ELSE IF endOfStream THEN Absent
                              ELSE IF streamInput = Absent THEN seen ELSE streamInput
    /\ wire' = NoBody
    /\ UNCHANGED <<stream, pair, actor, resolvedModel, calls, variant, apiVersion, modelNameOverride, requestModel, phase, req>>

Next ==
    \/ RequestBody
    \/ ResponseHeaders
    \/ NextRequest
    \/ BackendResponds
    \/ BackendWriteLine
    \/ BackendWriteBody
    \/ ResponseBody

Spec == Init /\ [][Next]_vars

----------------------------------------------------------------------------
(* Two exchanges side by side: each instance is called with its own        *)
(* requests and responses, in any interleaving.  alone is what the         *)
(* instance would hold had it been the only one.                           *)

exchangeVars ==
    <<variant, apiVersion, modelNameOverride, requestModel, phase, req, wire, streamInput, last,
      resolvedModel, calls, stream>>

PairTranslators ==
    {Translator(AWS, BedrockVersion, <<>>), Translator(GCP, VertexVersion, <<"o", "/", ":", " ">>),
     Translator(AWSLegacy, <<>>, <<>>), Translator(AWS, <<>>, <<>>)}

PairRequests ==
    {[k \in {modelKey} |-> StrVal(SimpleModel)],
     [k \in {modelKey, streamKey} |-> IF k = modelKey THEN StrVal(ProfileARN) ELSE BoolVal(TRUE)]}

PairBodies ==
    {SSEBody(<<StartEvent(Tok(50), Zero32, Absent), DeltaEvent(Tok(84))>>),
     JSONBody(Usage(Tok(45), Tok(28), Tok(30), Zero32)), RawBody}

(* a.requestModel = ...: a write to a field of the receiver.                *)
StoreRequestModelShared(translators, i, model) ==
    [j \in DOMAIN translators |-> [translators[j] EXCEPT !.requestModel = model]]

StoreRequestModel(translators, i, model) == [translators EXCEPT ![i].requestModel = model]

InitPair ==
    /\ pair \in [Instances -> PairTranslators]
    /\ actor = 0
    /\ stream = <<>>
    /\ variant = AWS
    /\ apiVersion = BedrockVersion
    /\ modelNameOverride = <<>>
    /\ requestModel = <<>>
    /\ phase = "request"
    /\ req = EmptyDoc
    /\ wire = NoBody
    /\ streamInput = Absent
    /\ last = NoCall
    /\ resolvedModel = <<>>
    /\ calls = 0

PairRequestBody(i) ==
    /\ \E body \in PairRequests :
        LET t == pair[i]
            r == TranslatorRequestBody(t.variant, t.apiVersion, t.modelNameOverride, body)
            called == [pair EXCEPT ![i].last = Call("RequestBody", FALSE, body, NoBody, FALSE, Absent,
                                                   r.hm, r.bm, ZeroUsage, <<>>, r.err),
                                   ![i].alone = IF t.modelNameOverride # <<>> THEN t.modelNameOverride
                                                ELSE GetModel(body),
                                   ![i].requestErr = r.err]
        IN  pair' = StoreRequestModel(called, i, r.requestModel)
    /\ actor' = i
    /\ UNCHANGED exchangeVars

PairResponseHeaders(i) ==
    /\ \E headers \in HeaderMaps :
        LET r == ResponseHeadersResult(headers)
        IN  pair' = [pair EXCEPT ![i].last = [Call("ResponseHeaders", FALSE, EmptyDoc, NoBody, FALSE, Absent,
                                                   r.hm, NilBodyMutation, ZeroUsage, <<>>, r.err)
                                              EXCEPT !.headers = headers]]
    /\ actor' = i
    /\ UNCHANGED exchangeVars

PairResponseBody(i) ==
    /\ \E body \in PairBodies, endOfStream \in BOOLEAN, readFails \in BOOLEAN :
        LET t == pair[i]
            r == TranslatorResponseBody(t.variant, body, endOfStream, readFails, t.requestModel)
        IN  pair' = [pair EXCEPT ![i].last = Call("ResponseBody", endOfStream, EmptyDoc,
                                                  IF readFails THEN NoBody ELSE body, readFails, Absent,
                                                  r.hm, r.bm, r.usage, r.responseModel, r.err)]
    /\ actor' = i
    /\ UNCHANGED exchangeVars

NextPair ==
    \/ \E i \in Instances : PairRequestBody(i)
    \/ \E i \in Instances : PairResponseHeaders(i)
    \/ \E i \in Instances : PairResponseBody(i)

SpecPair == InitPair /\ [][NextPair]_vars

----------------------------------------------------------------------------
(* One ResponseBody call on one body: the body is any chunk of up to       *)
(* MaxChunkLines lines, or a whole body, and the caller passes either      *)
(* endOfStream flag.                                                       *)

contentBlockDelta == "content_block_delta"

ChunkLines ==
    {NonDataLine, BadJSONLine, Event(""), Event(messageStop), Event(contentBlockDelta), Event(messageStart),
     Event(messageDelta), StartEvent(Tok(25), Zero32, Absent), StartEvent(MaxUint32, Tok(1), Tok(3)),
     DeltaEvent(Tok(84))}

RECURSIVE LinesUpTo(_)
LinesUpTo(n) ==
    IF n = 0 THEN {<<>>}
    ELSE LET shorter == LinesUpTo(n - 1)
         IN  shorter \cup {Append(ls, l) : ls \in {t \in shorter : Len(t) = n - 1}, l \in ChunkLines}

ChunkBodies == {SSEBody(ls) : ls \in LinesUpTo(MaxChunkLines)} \cup {JSONBody(m) : m \in Messages} \cup {RawBody}

ChunkVariants == {AWSLegacy, AWS, GCP}

InitChunk ==
    /\ pair = NoPair
    /\ actor = 0
    /\ stream = <<>>
    /\ variant \in ChunkVariants
    /\ apiVersion \in ApiVersions(variant) \ (IF HasApiVersion(variant) THEN {<<>>} ELSE {})
    /\ modelNameOverride = <<>>
    /\ requestModel = SimpleModel
    /\ phase = "response"
    /\ req = EmptyDoc
    /\ wire \in ChunkBodies
    /\ streamInput = Absent
    /\ last = NoCall
    /\ resolvedModel = SimpleModel
    /\ calls = 0

ChunkResponseBody ==
    /\ \E endOfStream \in BOOLEAN :
        LET r == ResponseBodyResult(wire, endOfStream, FALSE)
        IN  last' = Call("ResponseBody", endOfStream, EmptyDoc, wire, FALSE, streamInput,
                         r.hm, r.bm, r.usage, r.responseModel, r.err)
    /\ UNCHANGED <<stream, pair, actor, resolvedModel, calls, variant, apiVersion, modelNameOverride, requestModel,
                   phase, req, wire, streamInput>>

NextChunk == ChunkResponseBody

SpecChunk == InitChunk /\ [][NextChunk]_vars

----------------------------------------------------------------------------
(* One translator consuming the chunks of a stream one after the other:    *)
(* stream keeps every chunk it was given with the usage it returned.       *)

(* "event: <type>\n" "data: <json>\n" "\n"                                  *)
TestChunk(event) == SSEBody(<<NonDataLine, event, NonDataLine>>)

StreamChunks ==
    {TestChunk(StartEvent(Tok(25), Zero32, Absent)), TestChunk(Event(contentBlockDelta)),
     TestChunk(DeltaEvent(Tok(84))), TestChunk(Event(messageStop)),
     TestChunk(StartEvent(MaxUint32, Tok(1), Tok(3)))}

InitStream ==
    /\ pair = NoPair
    /\ actor = 0
    /\ stream = <<>>
    /\ variant \in ChunkVariants
    /\ apiVersion \in ApiVersions(variant) \ (IF HasApiVersion(variant) THEN {<<>>} ELSE {})
    /\ modelNameOverride = <<>>
    /\ requestModel = SimpleModel
    /\ phase = "response"
    /\ req = EmptyDoc
    /\ wire = NoBody
    /\ streamInput = Absent
    /\ last = NoCall
    /\ resolvedModel = SimpleModel
    /\ calls = 0

StreamResponseBody ==
    /\ Len(stream) < MaxChunks
    /\ \E chunk \in StreamChunks :
        LET r == ResponseBodyResult(chunk, FALSE, FALSE)
        IN  /\ last' = Call("ResponseBody", FALSE, EmptyDoc, chunk, FALSE, streamInput,
                            r.hm, r.bm, r.usage, r.responseModel, r.err)
            /\ stream' = Append(stream, [chunk |-> chunk, usage |-> r.usage])
    /\ UNCHANGED <<pair, actor, resolvedModel, calls, variant, apiVersion, modelNameOverride, requestModel,
                   phase, req, wire, streamInput>>

NextStream == StreamResponseBody

SpecStream == InitStream /\ [][NextStream]_vars

----------------------------------------------------------------------------
(* Properties.                                                             *)

Succeeded(op) == last.op = op /\ last.err = NoError

LastPath == HeaderValue(last.hm, pathHeader)

EndsWith(s, suffix) == Len(s) >= Len(suffix) /\ SubSeq(s, Len(s) - Len(suffix) + 1, Len(s)) = suffix

Count(c, s) == Cardinality({i \in 1..Len(s) : s[i] = c})

ModelField(doc) == IF modelKey \in DOMAIN doc THEN doc[modelKey].s ELSE <<>>

ExpectedModel == IF modelNameOverride # <<>> THEN modelNameOverride ELSE ModelField(last.req)

(* C1: after every RequestBody the stored RequestModel is the override     *)
(* when one is configured and the request's own model otherwise, and a     *)
(* successful call builds its path from that value.                        *)
C1_ModelResolution ==
    last.op = "RequestBody" =>
        /\ requestModel = ExpectedModel
        /\ last.err = NoError =>
            IF IsAWS(variant)
            THEN LastPath \in {AWSPath(st, PathEscape(ExpectedModel)) : st \in BOOLEAN}
            ELSE LastPath \in {buildGCPModelPathSuffix(gcpModelPublisherAnthropic, ExpectedModel, sp) :
                                  sp \in {rawPredict, streamRawPredict}}

C1_Witness ==
    /\ Succeeded("RequestBody")
    /\ modelNameOverride # <<>>
    /\ ModelField(last.req) = SimpleModel
    /\ requestModel = modelNameOverride

(* C2: the body of a successful RequestBody has no model key.              *)
C2_NoModelKey == Succeeded("RequestBody") => modelKey \notin BytesKeys(last.bm.Body)

C2_Witness ==
    /\ Succeeded("RequestBody")
    /\ modelKey \in DOMAIN last.req
    /\ modelNameOverride # <<>>
    /\ modelKey \notin BytesKeys(last.bm.Body)

(* C3: with a configured API version, the body of a successful RequestBody *)
(* carries anthropic_version with exactly that value, also when the        *)
(* request came with another one.                                          *)
C3_VersionInjected ==
    (Succeeded("RequestBody") /\ apiVersion # <<>>) =>
        /\ anthropicVersionKey \in BytesKeys(last.bm.Body)
        /\ BytesValue(last.bm.Body, anthropicVersionKey) = StrVal(apiVersion)

C3_Witness ==
    /\ Succeeded("RequestBody")
    /\ apiVersion # <<>>
    /\ anthropicVersionKey \in DOMAIN last.req
    /\ last.req[anthropicVersionKey] = StrVal(ClientVersion)
    /\ BytesValue(last.bm.Body, anthropicVersionKey) = StrVal(apiVersion)

(* C4: a translator constructed with an empty API version fails every      *)
(* RequestBody with the configuration error and returns no body.           *)
C4_EmptyVersionFails ==
    (last.op = "RequestBody" /\ HasApiVersion(variant) /\ apiVersion = <<>>) =>
        /\ last.err = ConfigError
        /\ last.bm.nil

(* C5: the streaming path is chosen exactly when stream is the boolean     *)
(* true; false, absent and non-boolean values choose the plain path, and   *)
(* the endOfStream argument plays no part.                                 *)
StreamIsTrue(doc) == streamKey \in DOMAIN doc /\ doc[streamKey] = BoolVal(TRUE)

C5_StreamingPath ==
    Succeeded("RequestBody") =>
        IF IsAWS(variant)
        THEN /\ EndsWith(LastPath, InvokeStreamSuffix) <=> StreamIsTrue(last.req)
             /\ EndsWith(LastPath, InvokeSuffix) <=> ~StreamIsTrue(last.req)
        ELSE /\ EndsWith(LastPath, <<":">> \o streamRawPredict) <=> StreamIsTrue(last.req)
             /\ EndsWith(LastPath, <<":">> \o rawPredict) <=> ~StreamIsTrue(last.req)

C5_Witness ==
    /\ Succeeded("RequestBody")
    /\ last.endOfStream
    /\ streamKey \in DOMAIN last.req
    /\ last.req[streamKey].t = "string"
    /\ EndsWith(LastPath, InvokeSuffix)

(* C6: the AWS path is /model/<id>/invoke[-stream], where <id> is the      *)
(* RequestModel with every slash written as %2F and every colon kept, so   *)
(* the path has exactly three slashes.                                     *)
RECURSIVE SlashEscaped(_)
SlashEscaped(s) ==
    IF s = <<>> THEN <<>>
    ELSE (CASE Head(s) = "/" -> <<"%", "2", "F">>
            [] Head(s) = ":" -> <<":">>
            [] Head(s) = " " -> <<"%", "2", "0">>
            [] OTHER -> <<Head(s)>>) \o SlashEscaped(Tail(s))

C6_PathEncoding ==
    (Succeeded("RequestBody") /\ IsAWS(variant)) =>
        /\ LastPath \in {ModelPrefix \o SlashEscaped(requestModel) \o sfx : sfx \in {InvokeSuffix, InvokeStreamSuffix}}
        /\ Count("/", LastPath) = 3
        /\ Count(":", LastPath) = Count(":", requestModel)

C6_Witness ==
    /\ Succeeded("RequestBody")
    /\ IsAWS(variant)
    /\ requestModel = ProfileARN
    /\ LastPath = ModelPrefix \o <<"a", ":", "p", "%", "2", "F", "a">> \o InvokeSuffix

(* C7 as stated: a message_delta chunk that follows a message_start chunk  *)
(* reports the cumulative usage {i, o, i + o}.                             *)
NoEffectLines == {NonDataLine, BadJSONLine, Event(messageStop), Event(messageStart), Event(messageDelta)}

DeltaChunk(body) ==
    /\ body.kind = "sse"
    /\ \E k \in 1..Len(body.lines) :
        /\ body.lines[k] = DeltaEvent(Tok(84))
        /\ \A j \in 1..Len(body.lines) : j # k => body.lines[j] \in NoEffectLines

LaterDeltaCall ==
    /\ Succeeded("ResponseBody")
    /\ ~last.endOfStream
    /\ ~last.readFails
    /\ last.prevInput # Absent
    /\ DeltaChunk(last.body)

C7_CumulativeUsage ==
    LaterDeltaCall =>
        last.usage = LLMTokenUsage(last.prevInput, Tok(84), Add32(last.prevInput, Tok(84)), Zero32)

(* C7 as amended: the call reports the usage of its own chunk alone,       *)
(* {0, o, o}; the input tokens of the earlier chunk are not carried over.  *)
C7_PerChunkUsage == LaterDeltaCall => last.usage = LLMTokenUsage(Zero32, Tok(84), Tok(84), Zero32)

C7_Witness ==
    /\ LaterDeltaCall
    /\ last.prevInput = Tok(50)
    /\ last.usage.OutputTokens = Tok(84)

(* C8: a parsed final body yields InputTokens, OutputTokens and            *)
(* CachedInputTokens from its usage object and TotalTokens = input +       *)
(* output (uint32); cache reads and cache creations are not added.         *)
ParsedFinalCall ==
    /\ Succeeded("ResponseBody")
    /\ last.endOfStream
    /\ ~last.readFails
    /\ last.body.kind = "json"

C8_FinalUsage ==
    ParsedFinalCall =>
        last.usage = LLMTokenUsage(last.body.msg.input_tokens, last.body.msg.output_tokens,
                                   Add32(last.body.msg.input_tokens, last.body.msg.output_tokens),
                                   last.body.msg.cache_read_input_tokens)

C8_Witness ==
    /\ ParsedFinalCall
    /\ last.body.msg = Usage(Tok(45), Tok(28), Tok(30), Tok(10))
    /\ last.usage = LLMTokenUsage(Tok(45), Tok(28), Tok(73), Tok(30))

C12_ReadFailure ==
    (last.op = "ResponseBody" /\ last.readFails) =>
        /\ last.err = ReadError
        /\ last.hm.nil
        /\ last.bm.nil
        /\ last.usage = ZeroUsage
        /\ last.responseModel = <<>>

C12_Witness ==
    /\ last.op = "ResponseBody"
    /\ last.readFails
    /\ ~last.endOfStream
    /\ requestModel # <<>>
    /\ last.err = ReadError
    /\ last.responseModel = <<>>

NoUsageInformation ==
    \/ last.readFails
    \/ last.endOfStream /\ last.body.kind # "json"
    \/ ~last.endOfStream /\ \A k \in 1..Len(bytesLines(last.body)) : bytesLines(last.body)[k] \in NoEffectLines

C14_TotalIsSum ==
    last.op = "ResponseBody" =>
        /\ last.usage.TotalTokens = Add32(last.usage.InputTokens, last.usage.OutputTokens)
        /\ NoUsageInformation => last.usage = ZeroUsage

C14_Witness ==
    /\ Succeeded("ResponseBody")
    /\ ~last.endOfStream
    /\ last.body = SSEBody(<<StartEvent(MaxUint32, Tok(1), Absent), DeltaEvent(Tok(84))>>)
    /\ last.usage = LLMTokenUsage(MaxUint32, Tok(85), Tok(84), Zero32)

(* C15: a second RequestBody call with the same parsed request returns the *)
(* same path, content-length, body and error as the first and leaves the   *)
(* same stored RequestModel.                                               *)
C15_Idempotent ==
    [][(last.op = "RequestBody" /\ last'.op = "RequestBody") =>
          /\ last'.hm = last.hm
          /\ last'.bm = last.bm
          /\ last'.err = last.err
          /\ requestModel' = requestModel]_vars

C15_Witness ==
    /\ Succeeded("RequestBody")
    /\ calls = 2
    /\ modelNameOverride = <<>>
    /\ ModelField(last.req) = SimpleModel
    /\ requestModel = SimpleModel
    /\ modelKey \notin BytesKeys(last.bm.Body)

(* C16: RequestBody leaves the caller's parsed request as it was, whether  *)
(* the call succeeds or fails: the model key stays and no                  *)
(* anthropic_version key appears.                                          *)
C16_RequestUntouched == last.op = "RequestBody" => req = last.req

C16_Witness ==
    /\ Succeeded("RequestBody")
    /\ apiVersion # <<>>
    /\ modelKey \in DOMAIN req
    /\ anthropicVersionKey \notin DOMAIN req
    /\ anthropicVersionKey \in BytesKeys(last.bm.Body)
    /\ modelKey \notin BytesKeys(last.bm.Body)

(* C17 as stated: every key of the request other than model is in the      *)
(* output body with the same value, and the output has no other key than   *)
(* those and anthropic_version.                                            *)
C17_FieldPassthrough ==
    Succeeded("RequestBody") =>
        /\ \A k \in (DOMAIN last.req) \ {modelKey} :
              k \in BytesKeys(last.bm.Body) /\ BytesValue(last.bm.Body, k) = last.req[k]
        /\ BytesKeys(last.bm.Body) \subseteq ((DOMAIN last.req) \ {modelKey}) \cup {anthropicVersionKey}

(* C17 as amended: the same for every key other than model and             *)
(* anthropic_version; an anthropic_version the request came with is        *)
(* replaced by the configured one.                                         *)
C17_OtherFieldsPassthrough ==
    Succeeded("RequestBody") =>
        /\ \A k \in (DOMAIN last.req) \ {modelKey, anthropicVersionKey} :
              k \in BytesKeys(last.bm.Body) /\ BytesValue(last.bm.Body, k) = last.req[k]
        /\ BytesKeys(last.bm.Body) \subseteq ((DOMAIN last.req) \ {modelKey}) \cup {anthropicVersionKey}
        /\ (anthropicVersionKey \in DOMAIN last.req /\ HasApiVersion(variant)) =>
              BytesValue(last.bm.Body, anthropicVersionKey) = StrVal(apiVersion)

C17_Witness ==
    /\ Succeeded("RequestBody")
    /\ apiVersion # <<>>
    /\ DOMAIN last.req = Keys
    /\ last.req[streamKey] = BoolVal(FALSE)
    /\ BytesValue(last.bm.Body, streamKey) = BoolVal(FALSE)
    /\ BytesValue(last.bm.Body, maxTokensKey) = NumVal(7)
    /\ BytesValue(last.bm.Body, anthropicVersionKey) = StrVal(apiVersion)

(* C19: ResponseHeaders returns a nil header mutation and a nil error for  *)
(* every header map, at any point of the exchange, and leaves the stored   *)
(* RequestModel as it was.                                                 *)
C19_ResponseHeadersPassthrough ==
    [][last'.op = "ResponseHeaders" =>
          /\ last'.hm.nil
          /\ last'.err = NoError
          /\ requestModel' = requestModel]_vars

C19_Witness ==
    /\ last.op = "ResponseHeaders"
    /\ last.headers # {}
    /\ phase = "response"
    /\ requestModel # <<>>
    /\ last.hm.nil
    /\ last.err = NoError

(* C20 as stated: once a message_start event has set InputTokens, a second *)
(* message_start in the chunk and every later chunk of the stream report   *)
(* the same InputTokens.                                                   *)
StreamingCall ==
    /\ Succeeded("ResponseBody")
    /\ ~last.endOfStream
    /\ ~last.readFails

C20_InputSetOnce ==
    StreamingCall =>
        LET first == IF last.prevInput # Absent THEN last.prevInput
                     ELSE FirstStartInput(bytesLines(last.body))
        IN  first # Absent => last.usage.InputTokens = first

RECURSIVE LastStartInput(_)
LastStartInput(lines) ==
    IF lines = <<>> THEN Absent
    ELSE LET l == lines[Len(lines)]
         IN  IF l.data /\ l.json /\ l.type = messageStart /\ l.usage /\ l.input # Absent
             THEN l.input ELSE LastStartInput(SubSeq(lines, 1, Len(lines) - 1))

(* C20 as amended: a call reports the input_tokens of the last             *)
(* message_start event of its own chunk, and zero when the chunk has       *)
(* none, whatever earlier chunks of the stream held.                       *)
C20_InputFromOwnChunk ==
    StreamingCall =>
        LET own == LastStartInput(bytesLines(last.body))
        IN  last.usage.InputTokens = IF own # Absent THEN own ELSE Zero32

C20_Witness ==
    /\ StreamingCall
    /\ last.prevInput = Tok(50)
    /\ last.body = SSEBody(<<StartEvent(Tok(50), Zero32, Absent), StartEvent(MaxUint32, Tok(1), Absent)>>)
    /\ last.usage.InputTokens = MaxUint32

(* C18: with two instances called in any interleaving, each call returns   *)
(* what the instance would return alone, and a call on one instance leaves *)
(* the other's RequestModel, latest results and configuration as they were.*)
AsAlone(t) ==
    /\ t.requestModel = t.alone
    /\ CASE t.last.op = "RequestBody" ->
               LET r == TranslatorRequestBody(t.variant, t.apiVersion, t.modelNameOverride, t.last.req)
               IN  t.last.hm = r.hm /\ t.last.bm = r.bm /\ t.last.err = r.err
          [] t.last.op = "ResponseBody" ->
               LET r == TranslatorResponseBody(t.variant, t.last.body, t.last.endOfStream, t.last.readFails, t.alone)
               IN  /\ t.last.hm = r.hm
                   /\ t.last.bm = r.bm
                   /\ t.last.usage = r.usage
                   /\ t.last.responseModel = r.responseModel
                   /\ t.last.err = r.err
          [] t.last.op = "ResponseHeaders" -> t.last.hm.nil /\ t.last.err = NoError
          [] OTHER -> TRUE

C18_Isolation ==
    [][\A i \in Instances :
          /\ AsAlone(pair'[i])
          /\ actor' # i => pair'[i] = pair[i]
          /\ pair'[i].variant = pair[i].variant
          /\ pair'[i].apiVersion = pair[i].apiVersion
          /\ pair'[i].modelNameOverride = pair[i].modelNameOverride]_vars

C18_Witness ==
    /\ actor = 1
    /\ pair[1].last.op = "ResponseBody"
    /\ pair[1].last.err = NoError
    /\ pair[1].requestModel = SimpleModel
    /\ pair[1].last.responseModel = SimpleModel
    /\ pair[2].last.op = "RequestBody"
    /\ pair[2].requestModel = <<"o", "/", ":", " ">>

(* C21 as stated: a message_start event whose usage reports a positive     *)
(* output_tokens p adds p to the OutputTokens q counted so far in the      *)
(* chunk (q + p); a value of 0 leaves OutputTokens as it was.              *)
Front(lines) == SubSeq(lines, 1, Len(lines) - 1)

EndsWithStart ==
    /\ StreamingCall
    /\ last.body.kind = "sse"
    /\ last.body.lines # <<>>
    /\ LET l == last.body.lines[Len(last.body.lines)]
       IN  l.data /\ l.json /\ l.type = messageStart /\ l.usage

C21_StartAddsOutput ==
    EndsWithStart =>
        LET p == last.body.lines[Len(last.body.lines)].output
            q == SSEFold(ZeroUsage, Front(last.body.lines)).OutputTokens
        IN  last.usage.OutputTokens = IF p \in {Absent, Zero32} THEN q ELSE Add32(q, p)

(* C21 as amended: a positive output_tokens p of a message_start event     *)
(* replaces the OutputTokens counted so far in the chunk (p, not q + p);   *)
(* a value of 0 leaves OutputTokens as it was.                             *)
C21_StartReplacesOutput ==
    EndsWithStart =>
        LET p == last.body.lines[Len(last.body.lines)].output
            q == SSEFold(ZeroUsage, Front(last.body.lines)).OutputTokens
        IN  last.usage.OutputTokens = IF p \in {Absent, Zero32} THEN q ELSE p

C21_Witness ==
    /\ EndsWithStart
    /\ last.body.lines = <<DeltaEvent(Tok(84)), StartEvent(MaxUint32, Tok(1), Tok(3))>>
    /\ last.usage.OutputTokens = Tok(1)

(* C22: the usage-bearing events of one chunk are all applied in line      *)
(* order: a chunk of a message_start with usage (i, p) followed by         *)
(* message_delta events d1..dk returns {i, p + d1 + ... + dk, the sum of   *)
(* both}; a chunk without a usage-bearing event returns zero counters.     *)
IsStartWithUsage(l) == l.data /\ l.json /\ l.type = messageStart /\ l.usage

IsDeltaWithUsage(l) == l.data /\ l.json /\ l.type = messageDelta /\ l.usage /\ l.output # Absent

RECURSIVE SumOutputs(_)
SumOutputs(lines) == IF lines = <<>> THEN Zero32 ELSE Add32(Head(lines).output, SumOutputs(Tail(lines)))

StartThenDeltas(lines) ==
    /\ lines # <<>>
    /\ IsStartWithUsage(lines[1])
    /\ lines[1].input # Absent
    /\ lines[1].output # Absent
    /\ \A k \in 2..Len(lines) : IsDeltaWithUsage(lines[k])

C22_AllEventsApplied ==
    (StreamingCall /\ last.body.kind = "sse") =>
        LET lines == last.body.lines
        IN  /\ StartThenDeltas(lines) =>
                LET o == Add32(lines[1].output, SumOutputs(Tail(lines)))
                IN  last.usage = LLMTokenUsage(lines[1].input, o, Add32(lines[1].input, o), Zero32)
            /\ (\A k \in 1..Len(lines) : ~IsStartWithUsage(lines[k]) /\ ~IsDeltaWithUsage(lines[k])) =>
                last.usage = ZeroUsage

C22_Witness ==
    /\ StreamingCall
    /\ last.body.lines = <<StartEvent(MaxUint32, Tok(1), Tok(3)), DeltaEvent(Tok(84)), DeltaEvent(Tok(84))>>
    /\ last.usage = LLMTokenUsage(MaxUint32, Tok(169), Tok(168), Zero32)

(* C23: in a non-final chunk, a line without the data: prefix and a data:  *)
(* line whose payload is no JSON object contribute nothing and raise no    *)
(* error, and the well-formed lines after them are still processed: the    *)
(* usage is that of the chunk with those lines removed.                    *)
WellFormed(l) == l.data /\ l.json

C23_MalformedSkipped ==
    (last.op = "ResponseBody" /\ ~last.endOfStream /\ ~last.readFails /\ last.body.kind = "sse") =>
        /\ last.err = NoError
        /\ last.usage = SSEFold(ZeroUsage, SelectSeq(last.body.lines, WellFormed))

C23_Witness ==
    /\ StreamingCall
    /\ last.body.lines = <<BadJSONLine, NonDataLine, DeltaEvent(Tok(84))>>
    /\ last.usage = LLMTokenUsage(Zero32, Tok(84), Tok(84), Zero32)

(* C24: a parsed event of another type than message_start and              *)
(* message_delta, one without a string type, and a message_start or        *)
(* message_delta without a usage object change no counter: the usage is    *)
(* that of the chunk without these events, and a message_stop after        *)
(* usage-bearing events leaves what they counted.                          *)
HasUsageEffect(l) == ~(l.data /\ l.json /\ (l.type \notin {messageStart, messageDelta} \/ ~l.usage))

C24_NoUsageEffect ==
    (StreamingCall /\ last.body.kind = "sse") =>
        LET lines == last.body.lines
        IN  /\ last.usage = SSEFold(ZeroUsage, SelectSeq(lines, HasUsageEffect))
            /\ (lines # <<>> /\ ~HasUsageEffect(lines[Len(lines)])) =>
                  last.usage = SSEFold(ZeroUsage, Front(lines))

C24_Witness ==
    /\ StreamingCall
    /\ last.body.lines = <<StartEvent(Tok(25), Zero32, Absent), DeltaEvent(Tok(84)), Event(messageStop)>>
    /\ last.usage = LLMTokenUsage(Tok(25), Tok(84), Tok(109), Zero32)

(* C25: the usage ResponseBody returns for a non-final chunk depends on    *)
(* the bytes of that chunk alone, whatever the same translator consumed    *)
(* before: on one translator message_start{25} returns {25, 0, 25},        *)
(* content_block_delta {0, 0, 0}, message_delta{84} {0, 84, 84} and        *)
(* message_stop {0, 0, 0}.                                                 *)
ChunkUsage(chunk) ==
    CASE chunk = TestChunk(StartEvent(Tok(25), Zero32, Absent)) -> LLMTokenUsage(Tok(25), Zero32, Tok(25), Zero32)
      [] chunk = TestChunk(Event(contentBlockDelta)) -> ZeroUsage
      [] chunk = TestChunk(DeltaEvent(Tok(84))) -> LLMTokenUsage(Zero32, Tok(84), Tok(84), Zero32)
      [] chunk = TestChunk(Event(messageStop)) -> ZeroUsage
      [] chunk = TestChunk(StartEvent(MaxUint32, Tok(1), Tok(3))) -> LLMTokenUsage(MaxUint32, Tok(1), Zero32, Zero32)

C25_StatelessPerChunk ==
    /\ \A j, k \in 1..Len(stream) : stream[j].chunk = stream[k].chunk => stream[j].usage = stream[k].usage
    /\ \A k \in 1..Len(stream) : stream[k].usage = ChunkUsage(stream[k].chunk)
    /\ stream # <<>> => last.usage = stream[Len(stream)].usage /\ last.err = NoError

C25_Witness ==
    /\ Len(stream) = 4
    /\ stream[1] = [chunk |-> TestChunk(StartEvent(Tok(25), Zero32, Absent)),
                    usage |-> LLMTokenUsage(Tok(25), Zero32, Tok(25), Zero32)]
    /\ stream[2] = [chunk |-> TestChunk(Event(contentBlockDelta)), usage |-> ZeroUsage]
    /\ stream[3] = [chunk |-> TestChunk(DeltaEvent(Tok(84))),
                    usage |-> LLMTokenUsage(Zero32, Tok(84), Tok(84), Zero32)]
    /\ stream[4] = [chunk |-> TestChunk(Event(messageStop)), usage |-> ZeroUsage]
    /\ last.usage = ZeroUsage

(* C26: the end of the stream is what the caller's flag says, never what   *)
(* the body looks like: with endOfStream false a complete JSON message is  *)
(* read as SSE text (nil header mutation, no usage found); with            *)
(* endOfStream true an SSE-framed chunk is a body that does not parse:     *)
(* zero usage, nil header mutation, the same bytes, no error.              *)
C26_FlagDecides ==
    (last.op = "ResponseBody" /\ ~last.readFails) =>
        /\ ~last.endOfStream =>
              /\ last.hm.nil
              /\ last.body.kind = "json" => last.usage = ZeroUsage
              /\ last.body.kind = "sse" => last.usage = SSEFold(ZeroUsage, last.body.lines)
        /\ (last.endOfStream /\ last.body.kind = "sse") =>
              /\ last.usage = ZeroUsage
              /\ last.hm.nil
              /\ ~last.bm.nil
              /\ last.bm.Body = last.body
              /\ last.err = NoError
        /\ (last.endOfStream /\ last.body.kind = "json") =>
              /\ ~last.hm.nil
              /\ last.usage.InputTokens = last.body.msg.input_tokens

C26_Witness ==
    /\ Succeeded("ResponseBody")
    /\ last.endOfStream
    /\ last.body = SSEBody(<<StartEvent(Tok(25), Zero32, Absent), DeltaEvent(Tok(84))>>)
    /\ last.usage = ZeroUsage
    /\ last.hm.nil
    /\ last.bm.Body = last.body

BackendPath ==
    IF IsAWS(variant)
    THEN AWSPath(StreamIsTrue(last.req), SlashEscaped(ExpectedModel))
    ELSE buildGCPModelPathSuffix(gcpModelPublisherAnthropic, ExpectedModel,
                                 IF StreamIsTrue(last.req) THEN streamRawPredict ELSE rawPredict)

C28_HeadersMatchBody ==
    Succeeded("RequestBody") =>
        /\ ~last.hm.nil
        /\ ~last.bm.nil
        /\ HeaderKeys(last.hm) = {pathHeader, contentLengthHeader}
        /\ \A i \in 1..Len(last.hm.SetHeaders) :
              last.hm.SetHeaders[i].RawValue =
                  IF last.hm.SetHeaders[i].Key = pathHeader THEN BackendPath
                  ELSE Itoa(RequestLen(last.bm.Body))
        /\ BytesKeys(last.bm.Body) =
              ((DOMAIN last.req) \ {modelKey}) \cup (IF HasApiVersion(variant) THEN {anthropicVersionKey} ELSE {})

C28_Witness ==
    /\ Succeeded("RequestBody")
    /\ apiVersion # <<>>
    /\ DOMAIN last.req = {modelKey, maxTokensKey}
    /\ ModelField(last.req) = SimpleModel
    /\ RequestLen(jsonMarshal(last.req)) = 30
    /\ HeaderValue(last.hm, contentLengthHeader) = <<"4", "1">>
    /\ RequestLen(last.bm.Body) = 41

(* C29: RequestBody stores the resolved RequestModel before it checks the  *)
(* API version and does not take it back: after a call that fails with the *)
(* configuration error the translator holds the model resolved for that    *)
(* request, and a later ResponseBody reports it as responseModel.          *)
C29_ModelKeptOnFailure ==
    \A i \in Instances :
        LET t == pair[i]
        IN  /\ (HasApiVersion(t.variant) /\ t.apiVersion = <<>> /\ t.last.op = "RequestBody") =>
                  t.requestErr = ConfigError
            /\ t.requestErr = ConfigError =>
                  /\ t.requestModel = t.alone
                  /\ t.last.op = "RequestBody" =>
                        /\ t.last.err = ConfigError
                        /\ t.requestModel = applyModelNameOverride(ModelField(t.last.req), t.modelNameOverride)
                  /\ (t.last.op = "ResponseBody" /\ t.last.err = NoError) => t.last.responseModel = t.alone

C29_Witness ==
    /\ pair[1].requestErr = ConfigError
    /\ pair[1].last.op = "ResponseBody"
    /\ pair[1].last.err = NoError
    /\ pair[1].alone = ProfileARN
    /\ pair[1].requestModel = ProfileARN
    /\ pair[1].last.responseModel = ProfileARN

(* C30: every ResponseBody call with endOfStream false returns             *)
(* CachedInputTokens 0, also when a message_start event of the chunk       *)
(* carries a non-zero cache_read_input_tokens; only a parsed final body    *)
(* reports its cache reads.                                                *)
C30_NoCachedInStream ==
    last.op = "ResponseBody" =>
        /\ ~last.endOfStream => last.usage.CachedInputTokens = Zero32
        /\ last.usage.CachedInputTokens # Zero32 =>
              /\ last.endOfStream
              /\ last.body.kind = "json"
              /\ last.usage.CachedInputTokens = last.body.msg.cache_read_input_tokens

C30_Witness ==
    /\ StreamingCall
    /\ last.body.lines = <<StartEvent(MaxUint32, Tok(1), Tok(3))>>
    /\ last.body.lines[1].cache = Tok(3)
    /\ last.usage = LLMTokenUsage(MaxUint32, Tok(1), Zero32, Zero32)

====
